---- MODULE Spec2Model ----
(***************************************************************************)
(* Model of mcp-servers/ml-server/python-scripts/detect_anomalies.py:      *)
(* one run of the command-line tool, from argument parsing to process      *)
(* exit, together with the part of the filesystem and of the standard      *)
(* streams the run touches.                                                *)
(*                                                                         *)
(* Numbers.  --contamination is a Python float.  It is modelled as an      *)
(* exact fraction [num, den]; for the fractions and record counts of the   *)
(* model the double-precision product contamination * len(data) truncates  *)
(* to the same integer as the exact product.  Scores are floats drawn from *)
(* a normal distribution; they are modelled as integers around the         *)
(* distribution's centre, in units in which the shifts of the code (2 and  *)
(* 1) are themselves.  The metadata's timestamp is left out: no step reads *)
(* it.  Non-finite contamination values (nan, inf) are outside the inputs  *)
(* the model draws.                                                        *)
(***************************************************************************)
EXTENDS Integers, Sequences, FiniteSets, TLC

\* ---------------------------------------------------------------- bounds
\* Largest number of records of an input array.
MaxN == 3
\* ------------------------------------------------------------ input sets
Records == {"a", "b"}

Methods == {"isolation_forest", "one_class_svm", "local_outlier_factor"}

DefaultMethod == "isolation_forest"

DefaultContamination == [num |-> 1, den |-> 10]

\* An optional command-line flag: <<>> when absent, <<v>> when given.
Opt(S) == {<<>>} \cup {<<v>> : v \in S}

\* The --contamination values given on the command line: the halves from
\* -1 to 3/2, all exact as floats.
ContamValues == {[num |-> n, den |-> 2] : n \in -2..3}

\* The text after --features, as a sequence of characters.  The empty text
\* stands for both an absent flag (None) and an empty string: both are falsy.
FeatureTexts == {<<>>, <<"x", ",", "y">>}

Argv == [data : BOOLEAN, output : BOOLEAN,
         method : Opt(Methods \cup {"kmeans"}),
         contamination : Opt(ContamValues),
         features : FeatureTexts]

Arrays == UNION {[1..n -> Records] : n \in 0..MaxN}

\* What is at the --data path.
DataFiles == {[kind |-> k, content |-> <<>>] :
                 k \in {"missing", "unreadable", "invalid_json", "scalar"}}
             \cup {[kind |-> "array", content |-> a] : a \in Arrays}

\* ------------------------------------------------------- pure operations
\* int(x) of Python for the exact fraction a/d, d > 0: truncation toward 0.
PyInt(a, d) == IF a >= 0 THEN a \div d ELSE -((-a) \div d)

\* The sample size rounded up instead of truncated.
SampleSize_ceil(contamination, n) ==
    -((-(contamination.num * n)) \div contamination.den)

\* int(contamination * len(data))
SampleSize(contamination, n) == PyInt(contamination.num * n, contamination.den)

\* np.random.choice(n, k, replace=False) raises ValueError when k is
\* negative or larger than the population.
ChoiceFails(n, k) == k < 0 \/ k > n

\* Sampling with replacement: only a negative size, or a positive size from
\* an empty population, raises; k draws hit between 1 and k positions.
Choice_replace(n, k) ==
    IF k < 0 THEN {}
    ELSE {S \in SUBSET (0..(n-1)) :
             Cardinality(S) <= k /\ (k > 0 => Cardinality(S) >= 1)}

\* What np.random.choice(n, k, replace=False) can return: k distinct values
\* of 0..n-1.  The array is only ever used as an index array (a[indices] = v,
\* a[indices] -= d), to which its order means nothing, so a draw is kept as
\* the set of its values.  The empty set of draws: the call raises.
Choice(n, k) ==
    IF ChoiceFails(n, k) THEN {}
    ELSE {S \in SUBSET (0..(n-1)) : Cardinality(S) = k}

\* The arrays np.random.normal(loc, scale, n) is taken to return.
Normal(loc, n) == [1..n -> {loc - 1, loc + 1}]

\* a = np.zeros(n, dtype=bool); a[indices] = True
MarkTrue(n, indices) ==
    [i \in 1..n |-> (i - 1) \in indices]

\* a[indices] += delta : gather a[indices], add, scatter back; each indexed
\* position is assigned once.
ShiftAt(a, indices, delta) ==
    LET gathered == [p \in indices |-> a[p + 1] + delta]
    IN  [i \in 1..Len(a) |-> IF (i - 1) \in indices THEN gathered[i - 1] ELSE a[i]]

\* The shift of the flagged scores with the wrong sign.
detect_with_isolation_forest_sign(data, features, contamination, indices, base) ==
    [is_anomaly    |-> MarkTrue(Len(data), indices),
     anomaly_score |-> ShiftAt(base, indices, 2)]

detect_with_isolation_forest(data, features, contamination, indices, base) ==
    [is_anomaly    |-> MarkTrue(Len(data), indices),
     anomaly_score |-> ShiftAt(base, indices, -2)]

\* Flags that look at the records: every record "b" is flagged as well.
detect_with_one_class_svm_values(data, features, contamination, indices, base) ==
    [is_anomaly    |-> [i \in 1..Len(data) |->
                           MarkTrue(Len(data), indices)[i] \/ data[i] = "b"],
     anomaly_score |-> ShiftAt(base, indices, -2)]

detect_with_one_class_svm(data, features, contamination, indices, base) ==
    [is_anomaly    |-> MarkTrue(Len(data), indices),
     anomaly_score |-> ShiftAt(base, indices, -2)]

\* The flag array sized by the sample instead of by the dataset.
detect_with_local_outlier_factor_short(data, features, contamination, indices, base) ==
    [is_anomaly    |-> [i \in 1..Cardinality(indices) |-> TRUE],
     anomaly_score |-> ShiftAt(base, indices, 1)]

detect_with_local_outlier_factor(data, features, contamination, indices, base) ==
    [is_anomaly    |-> MarkTrue(Len(data), indices),
     anomaly_score |-> ShiftAt(base, indices, 1)]

\* The centre of the normal distribution a detector draws its scores from.
Loc(method) == IF method = "local_outlier_factor" THEN 1 ELSE 0

\* The line a detector prints first.
Banner(method) ==
    CASE method = "isolation_forest"     -> "Using Isolation Forest"
      [] method = "one_class_svm"        -> "Using One-Class SVM"
      [] method = "local_outlier_factor" -> "Using Local Outlier Factor"

\* The if/elif chain of main: the detector called for a method.
Detector(method, data, features, contamination, indices, base) ==
    CASE method = "isolation_forest" ->
            detect_with_isolation_forest(data, features, contamination, indices, base)
      [] method = "one_class_svm" ->
            detect_with_one_class_svm(data, features, contamination, indices, base)
      [] method = "local_outlier_factor" ->
            detect_with_local_outlier_factor(data, features, contamination, indices, base)

\* sum(flags) of a list of booleans
RECURSIVE SumBool(_)
SumBool(flags) ==
    IF flags = <<>> THEN 0
    ELSE (IF Head(flags) THEN 1 ELSE 0) + SumBool(Tail(flags))

\* text.split(','): the pieces between the commas, at least one piece.
RECURSIVE Split(_)
Split(text) ==
    IF \A i \in 1..Len(text) : text[i] # "," THEN <<text>>
    ELSE LET c == CHOOSE i \in 1..Len(text) :
                     text[i] = "," /\ \A j \in 1..(i-1) : text[j] # ","
         IN  <<SubSeq(text, 1, c - 1)>> \o Split(SubSeq(text, c + 1, Len(text)))

\* argparse without choices= on --method.
ArgsValid_nochoices(av) ==
    /\ av.data
    /\ av.output

\* argparse: required flags present and --method among the choices.
ArgsValid(av) ==
    /\ av.data
    /\ av.output
    /\ av.method # <<>> => av.method[1] \in Methods

\* The namespace parse_args returns for a valid command line.
parse_arguments(av) ==
    [method        |-> IF av.method = <<>> THEN DefaultMethod ELSE av.method[1],
     contamination |-> IF av.contamination = <<>> THEN DefaultContamination
                       ELSE av.contamination[1],
     features      |-> av.features]

NoArgs == [method |-> "", contamination |-> DefaultContamination, features |-> <<>>]

NoResult == [is_anomaly |-> <<>>, anomaly_score |-> <<>>]

\* ------------------------------------------------------------------ state
VARIABLES
    pc,          \* the step of main about to run, or "Exit"
    argv,        \* the command line
    args,        \* the parsed namespace
    dataFile,    \* what is at the --data path
    data,        \* the loaded dataset
    features,    \* the parsed feature list (<<>> is None)
    indices,     \* the detector's draw of anomalous indices
    base,        \* the detector's draw of scores, before the shift
    result,      \* the result dictionary
    outDir,      \* the parent of the --output path: "absent", "dir", "file"
    outFile,     \* the --output path: "absent", "old", "partial", "complete"
    outContent,  \* what a complete output file holds
    stdout,      \* lines printed to standard output
    stderr,      \* lines printed to standard error
    exitCode,    \* process exit status, -1 while running
    exitFrom,    \* the step the process ended in
    fs0          \* <<outDir, outFile>> as the run found them

vars == <<pc, argv, args, dataFile, data, features, indices, base, result,
          outDir, outFile, outContent, stdout, stderr, exitCode, exitFrom, fs0>>

Init ==
    /\ pc = "Start"
    /\ argv \in Argv
    /\ args = NoArgs
    /\ dataFile \in DataFiles
    /\ data = <<>>
    /\ features = <<>>
    /\ indices = {}
    /\ base = <<>>
    /\ result = NoResult
    /\ outDir \in {"absent", "dir", "file"}
    /\ outFile \in (IF outDir = "dir" THEN {"absent", "old"} ELSE {"absent"})
    /\ outContent = NoResult
    /\ stdout = <<>>
    /\ stderr = <<>>
    /\ exitCode = -1
    /\ exitFrom = "none"
    /\ fs0 = <<outDir, outFile>>

\* sys.exit(code), or the interpreter ending the process.
Exit(code) ==
    /\ pc' = "Exit"
    /\ exitCode' = code
    /\ exitFrom' = pc

\* An exception no handler catches: traceback on stderr, exit status 1.
Unhandled ==
    /\ stderr' = Append(stderr, "Traceback")
    /\ Exit(1)

\* The interpreter enters main.
Start ==
    /\ pc = "Start"
    /\ pc' = "ParseArgs"
    /\ UNCHANGED <<fs0, argv, args, dataFile, data, features, indices, base, result,
                   outDir, outFile, outContent, stdout, stderr, exitCode, exitFrom>>

\* args = parse_arguments(); argparse exits with status 2 on a usage error.
ParseArgs ==
    /\ pc = "ParseArgs"
    /\ IF ArgsValid(argv)
       THEN /\ args' = parse_arguments(argv)
            /\ pc' = "LoadData"
            /\ UNCHANGED <<stderr, exitCode, exitFrom>>
       ELSE /\ stderr' = Append(stderr, "usage")
            /\ Exit(2)
            /\ UNCHANGED args
    /\ UNCHANGED <<fs0, argv, dataFile, data, features, indices, base, result,
                   outDir, outFile, outContent, stdout>>

\* The except block without its sys.exit(1): the run goes on with no data.
LoadData_noexit ==
    /\ pc = "LoadData"
    /\ IF dataFile.kind = "array"
       THEN /\ data' = dataFile.content
            /\ stdout' = Append(stdout, "Loaded data")
       ELSE /\ data' = <<>>
            /\ stdout' = Append(stdout, "Error loading data")
    /\ features' = IF args.features # <<>> THEN Split(args.features) ELSE <<>>
    /\ pc' = "Dispatch"
    /\ UNCHANGED <<fs0, argv, args, dataFile, indices, base, result,
                   outDir, outFile, outContent, stderr, exitCode, exitFrom>>

\* The try block around open/json.load/len, then the features block.
LoadData ==
    /\ pc = "LoadData"
    /\ IF dataFile.kind = "array"
       THEN /\ data' = dataFile.content
            /\ IF args.features # <<>>
               THEN /\ features' = Split(args.features)
                    /\ stdout' = stdout \o <<"Loaded data", "Using features">>
               ELSE /\ features' = <<>>
                    /\ stdout' = Append(stdout, "Loaded data")
            /\ pc' = "Dispatch"
            /\ UNCHANGED <<exitCode, exitFrom>>
       ELSE /\ stdout' = Append(stdout, "Error loading data")
            /\ Exit(1)
            /\ UNCHANGED <<data, features>>
    /\ UNCHANGED <<fs0, argv, args, dataFile, indices, base, result,
                   outDir, outFile, outContent, stderr>>

\* The if/elif/else chain and the detector it calls.
Dispatch ==
    /\ pc = "Dispatch"
    /\ LET n == Len(data)
           k == SampleSize(args.contamination, n)
       IN  IF args.method \in Methods
           THEN IF Choice(n, k) = {}
                THEN /\ stdout' = Append(stdout, Banner(args.method))
                     /\ Unhandled
                     /\ UNCHANGED <<indices, base, result>>
                ELSE /\ \E ind \in Choice(n, k), b \in Normal(Loc(args.method), n) :
                          /\ indices' = ind
                          /\ base' = b
                          /\ result' = Detector(args.method, data, features,
                                                args.contamination, ind, b)
                     /\ stdout' = Append(stdout, Banner(args.method))
                     /\ pc' = "AttachMetadata"
                     /\ UNCHANGED <<stderr, exitCode, exitFrom>>
           ELSE /\ stdout' = Append(stdout, "Unknown method")
                /\ Exit(1)
                /\ UNCHANGED <<indices, base, result, stderr>>
    /\ UNCHANGED <<fs0, argv, args, dataFile, data, features,
                   outDir, outFile, outContent>>

\* result["metadata"] = {...}
AttachMetadata ==
    /\ pc = "AttachMetadata"
    /\ result' = [is_anomaly    |-> result.is_anomaly,
                  anomaly_score |-> result.anomaly_score,
                  metadata      |-> [method        |-> args.method,
                                     contamination |-> args.contamination,
                                     record_count  |-> Len(data),
                                     anomaly_count |-> SumBool(result.is_anomaly)]]
    /\ pc' = "EnsureDir"
    /\ UNCHANGED <<fs0, argv, args, dataFile, data, features, indices, base,
                   outDir, outFile, outContent, stdout, stderr, exitCode, exitFrom>>

\* os.makedirs(dirname(abspath(output)), exist_ok=True), outside any try.
EnsureDir ==
    /\ pc = "EnsureDir"
    /\ \/ /\ outDir = "dir"
          /\ pc' = "Write"
          /\ UNCHANGED <<outDir, stderr, exitCode, exitFrom>>
       \/ /\ outDir = "absent"
          /\ outDir' = "dir"
          /\ pc' = "Write"
          /\ UNCHANGED <<stderr, exitCode, exitFrom>>
       \/ /\ outDir \in {"absent", "file"}
          /\ Unhandled
          /\ UNCHANGED outDir
    /\ UNCHANGED <<fs0, argv, args, dataFile, data, features, indices, base, result,
                   outFile, outContent, stdout>>

\* The path printed before the file is written.
Write_pathfirst ==
    /\ pc = "Write"
    /\ \/ /\ outFile' = "complete"
          /\ outContent' = result
          /\ pc' = "Report"
          /\ stdout' = Append(stdout, "PATH")
          /\ UNCHANGED <<exitCode, exitFrom>>
       \/ /\ outFile' \in {outFile, "partial"}
          /\ stdout' = stdout \o <<"PATH", "Error saving results">>
          /\ Exit(1)
          /\ UNCHANGED outContent
    /\ UNCHANGED <<fs0, argv, args, dataFile, data, features, indices, base, result,
                   outDir, stderr>>

\* with open(output, 'w') as f: json.dump(result, f), inside the try.
Write ==
    /\ pc = "Write"
    /\ \/ /\ outFile' = "complete"
          /\ outContent' = result
          /\ pc' = "Report"
          /\ UNCHANGED <<stdout, exitCode, exitFrom>>
       \/ /\ outFile' \in {outFile, "partial"}
          /\ stdout' = Append(stdout, "Error saving results")
          /\ Exit(1)
          /\ UNCHANGED outContent
    /\ UNCHANGED <<fs0, argv, args, dataFile, data, features, indices, base, result,
                   outDir, stderr>>

\* The two prints after the file is closed; main returns, exit status 0.
Report ==
    /\ pc = "Report"
    /\ stdout' = stdout \o <<"Results saved", "PATH">>
    /\ Exit(0)
    /\ UNCHANGED <<fs0, argv, args, dataFile, data, features, indices, base, result,
                   outDir, outFile, outContent, stderr>>

Next ==
    \/ Start
    \/ ParseArgs
    \/ LoadData
    \/ Dispatch
    \/ AttachMetadata
    \/ EnsureDir
    \/ Write
    \/ Report

Spec == Init /\ [][Next]_vars

\* ------------------------------------------------------------- properties
\* The elements of a sequence.
Range(s) == {s[i] : i \in DOMAIN s}

\* The detector has returned: result holds is_anomaly and anomaly_score.
Produced ==
    \/ pc \in {"AttachMetadata", "EnsureDir", "Write", "Report"}
    \/ pc = "Exit" /\ exitFrom \in {"EnsureDir", "Write", "Report"}

\* The metadata has been attached to result.
HasMetadata ==
    \/ pc \in {"EnsureDir", "Write", "Report"}
    \/ pc = "Exit" /\ exitFrom \in {"EnsureDir", "Write", "Report"}

\* The command line is one argparse rejects.
InvalidArgv ==
    \/ ~argv.data
    \/ ~argv.output
    \/ /\ argv.method # <<>>
       /\ argv.method[1] \notin {"isolation_forest", "one_class_svm",
                                 "local_outlier_factor"}

\* The filesystem is as the run found it.
FsUntouched == <<outDir, outFile>> = fs0 /\ outContent = NoResult

\* C1 (as claimed): in every run that produces a result, anomaly_count equals
\* the number of true flags and both equal floor(contamination * N).
C1_CountIsFloor ==
    HasMetadata =>
        LET m == result.metadata
            trues == Cardinality({i \in DOMAIN result.is_anomaly : result.is_anomaly[i]})
        IN  /\ m.anomaly_count = trues
            /\ trues = (m.contamination.num * m.record_count) \div m.contamination.den

\* C1 (amended): in every run that produces a result, anomaly_count equals the
\* number of true flags and both equal contamination * N truncated toward
\* zero: the integer q of the sign of the product with
\* |q| <= |contamination * N| < |q| + 1.  For contamination >= 0 that is
\* floor(contamination * N), and contamination 0 gives no flag at all.
C1_CountIsTruncation ==
    HasMetadata =>
        LET m == result.metadata
            c == m.contamination
            p == c.num * m.record_count
            absp == IF p >= 0 THEN p ELSE -p
            trues == Cardinality({i \in DOMAIN result.is_anomaly : result.is_anomaly[i]})
            absq == IF trues >= 0 THEN trues ELSE -trues
        IN  /\ m.anomaly_count = trues
            /\ trues * p >= 0
            /\ absq * c.den <= absp
            /\ absp < (absq + 1) * c.den
            /\ c.num >= 0 => trues = p \div c.den
            /\ c.num = 0 => \A i \in DOMAIN result.is_anomaly : ~result.is_anomaly[i]

\* A finished run with some but not all records flagged, the product
\* contamination * N not an integer.
C1_Witness ==
    /\ pc = "Exit" /\ exitCode = 0
    /\ result.metadata.anomaly_count >= 1
    /\ result.metadata.anomaly_count < result.metadata.record_count
    /\ (result.metadata.contamination.num * result.metadata.record_count)
          % result.metadata.contamination.den # 0

\* C2: for every input that loads and every method, is_anomaly, anomaly_score
\* and record_count all have the length of the input array, in the result and
\* in the file written from it.
C2_Lengths ==
    /\ Produced =>
          /\ Len(result.is_anomaly) = Len(dataFile.content)
          /\ Len(result.anomaly_score) = Len(dataFile.content)
          /\ DOMAIN result.is_anomaly = DOMAIN dataFile.content
          /\ DOMAIN result.anomaly_score = DOMAIN dataFile.content
    /\ HasMetadata => result.metadata.record_count = Len(dataFile.content)
    /\ outFile = "complete" =>
          /\ Len(outContent.is_anomaly) = Len(dataFile.content)
          /\ Len(outContent.anomaly_score) = Len(dataFile.content)
          /\ outContent.metadata.record_count = Len(dataFile.content)

\* A file written by the local-outlier-factor detector for several records,
\* fewer of them flagged than there are.
C2_Witness ==
    /\ outFile = "complete"
    /\ outContent.metadata.method = "local_outlier_factor"
    /\ Len(dataFile.content) >= 2
    /\ outContent.metadata.anomaly_count < Len(dataFile.content)

\* C3: when the dataset does not load, the run prints the load error, ends
\* with exit code 1 in the load step, and never creates the output directory
\* or touches the output file.
C3_LoadFailure ==
    (~InvalidArgv /\ dataFile.kind # "array") =>
        /\ pc \in {"Start", "ParseArgs", "LoadData", "Exit"}
        /\ FsUntouched
        /\ pc = "Exit" =>
              /\ exitCode = 1
              /\ exitFrom = "LoadData"
              /\ stdout = <<"Error loading data">>
              /\ stderr = <<>>

\* A run ended by a file that is not valid JSON, an old output file in place.
C3_Witness ==
    /\ pc = "Exit" /\ exitFrom = "LoadData"
    /\ dataFile.kind = "invalid_json"
    /\ outFile = "old"

\* C4 (as claimed): every failure of the output stage, directory creation
\* included, is caught, reported with a printed message, and exits with 1.
C4_OutputFailureReported ==
    (pc = "Exit" /\ exitFrom \in {"EnsureDir", "Write"}) =>
        /\ exitCode = 1
        /\ stdout # <<>>
        /\ stdout[Len(stdout)] = "Error saving results"
        /\ "Traceback" \notin Range(stderr)

\* C5: a run with invalid arguments exits non-zero in argument parsing, before
\* any file is read or written and before a detector runs; a run that reaches
\* dispatch calls exactly one of the three detectors, never the
\* unknown-method branch.
C5_ArgumentsChecked ==
    /\ InvalidArgv =>
          /\ pc \in {"Start", "ParseArgs", "Exit"}
          /\ pc = "Exit" => (exitCode # 0 /\ exitFrom = "ParseArgs")
          /\ data = <<>> /\ result = NoResult /\ stdout = <<>>
          /\ FsUntouched
    /\ "Unknown method" \notin Range(stdout)
    /\ (Produced \/ (pc = "Exit" /\ exitFrom = "Dispatch")) =>
          /\ args.method \in {"isolation_forest", "one_class_svm",
                              "local_outlier_factor"}
          /\ Cardinality({i \in DOMAIN stdout :
                 stdout[i] \in {"Using Isolation Forest", "Using One-Class SVM",
                                "Using Local Outlier Factor"}}) = 1

\* A run rejected for its --method, both required flags given.
C5_Witness ==
    /\ pc = "Exit" /\ exitCode = 2
    /\ argv.data /\ argv.output
    /\ argv.method = <<"kmeans">>

\* C6 (as claimed): steps follow Start, ParseArgs, LoadData, Dispatch,
\* AttachMetadata, EnsureDir, Write, Exit(0) in order; past ParseArgs a run
\* ends only with Exit(1) from LoadData or from Write, or with Exit(0) after
\* Write; no run ends from Dispatch, AttachMetadata or EnsureDir.
C6_LinearPipeline ==
    [][pc' # pc =>
         \/ <<pc, pc'>> \in {<<"Start", "ParseArgs">>, <<"ParseArgs", "LoadData">>,
                             <<"LoadData", "Dispatch">>, <<"Dispatch", "AttachMetadata">>,
                             <<"AttachMetadata", "EnsureDir">>, <<"EnsureDir", "Write">>,
                             <<"Write", "Report">>}
         \/ pc' = "Exit" /\ pc = "ParseArgs" /\ exitCode' # 0
         \/ pc' = "Exit" /\ pc \in {"LoadData", "Write"} /\ exitCode' = 1
         \/ pc' = "Exit" /\ pc = "Report" /\ exitCode' = 0]_vars

\* C7: when floor(contamination * N) > N the detector's sampling fails as an
\* unhandled fault: the run ends in dispatch with a traceback, prints neither
\* the load error nor the write error, and leaves the output directory and
\* file as they were.
C7_OversizedSample ==
    (/\ ~InvalidArgv
     /\ dataFile.kind = "array"
     /\ argv.contamination # <<>>
     /\ (argv.contamination[1].num * Len(dataFile.content))
           \div argv.contamination[1].den > Len(dataFile.content)) =>
        /\ pc \in {"Start", "ParseArgs", "LoadData", "Dispatch", "Exit"}
        /\ FsUntouched
        /\ "Error loading data" \notin Range(stdout)
        /\ "Error saving results" \notin Range(stdout)
        /\ pc = "Exit" =>
              /\ exitFrom = "Dispatch"
              /\ exitCode # 0
              /\ stderr = <<"Traceback">>

\* A run that died in the one-class detector asked for more indices than
\* there are records.
C7_Witness ==
    /\ pc = "Exit" /\ exitFrom = "Dispatch"
    /\ args.method = "one_class_svm"
    /\ Len(data) >= 1
    /\ args.contamination.num > args.contamination.den
    /\ stdout[Len(stdout)] = "Using One-Class SVM"

\* C8: the output path is printed only once the complete result is in the
\* output file, it is the last line of stdout of every successful run, and a
\* run whose write fails never prints it.
C8_PathLast ==
    /\ [](/\ "PATH" \in Range(stdout) =>
               /\ outFile = "complete"
               /\ outContent = result
               /\ stdout[Len(stdout)] = "PATH"
          /\ (pc = "Exit" /\ exitCode = 0) =>
               (stdout # <<>> /\ stdout[Len(stdout)] = "PATH")
          /\ "Error saving results" \in Range(stdout) => "PATH" \notin Range(stdout))
    /\ [][("PATH" \notin Range(stdout) /\ "PATH" \in Range(stdout')) =>
             (outFile = "complete" /\ outContent = result)]_vars

\* A successful run that replaced an old output file.
C8_Witness ==
    /\ pc = "Exit" /\ exitCode = 0
    /\ fs0[2] = "old"
    /\ outFile = "complete"
    /\ stdout[Len(stdout)] = "PATH"

\* C9: flags and scores do not depend on the records or on --features: any
\* dataset of the same length and any feature list give, with the same
\* method, contamination and draws, the flags and scores of this run; and the
\* loaded dataset stays what the file held.
C9_InputIndependence ==
    /\ pc \notin {"Start", "ParseArgs", "LoadData"} /\ exitFrom \notin {"ParseArgs", "LoadData"}
          => data = dataFile.content
    /\ Produced =>
          \A t2 \in FeatureTexts :
              LET f2 == IF t2 # <<>> THEN Split(t2) ELSE <<>>
              IN  \A d2 \in [DOMAIN data -> Records] :
                      LET r2 == Detector(args.method, d2, f2, args.contamination,
                                         indices, base)
                      IN  /\ r2.is_anomaly = result.is_anomaly
                          /\ r2.anomaly_score = result.anomaly_score

\* A one-class result for records of both values, features given, one
\* record flagged.
C9_Witness ==
    /\ Produced
    /\ args.method = "one_class_svm"
    /\ Range(data) = {"a", "b"}
    /\ Len(features) = 2
    /\ Cardinality(indices) = 1

\* C10: every score is its base draw, shifted exactly when its record is
\* flagged and then exactly once: by -2 for isolation_forest and
\* one_class_svm, by +1 for local_outlier_factor; the flagged records are the
\* drawn indices.
C10_ShiftedScores ==
    Produced =>
        /\ Len(base) = Len(result.anomaly_score)
        /\ \A i \in DOMAIN result.anomaly_score :
              /\ result.is_anomaly[i] <=> (i - 1) \in indices
              /\ result.anomaly_score[i] =
                    IF ~result.is_anomaly[i] THEN base[i]
                    ELSE IF args.method = "local_outlier_factor" THEN base[i] + 1
                    ELSE base[i] - 2

\* An isolation-forest result with a flagged and an unflagged record.
C10_Witness ==
    /\ Produced
    /\ args.method = "isolation_forest"
    /\ \E i, j \in DOMAIN result.is_anomaly :
          result.is_anomaly[i] /\ ~result.is_anomaly[j]

====
